---- MODULE Spec2Model ----
(***************************************************************************)
(* Model of the CPU plugin's ShuffleChannels node                          *)
(* (src/plugins/intel_cpu/src/nodes/mkldnn_shuffle_channels_node.cpp):     *)
(* the attribute key, the executor constructor that derives the permute    *)
(* parameters, exec, and the node's constructor / createPrimitive /        *)
(* prepareParams / execute around the runtime cache.                       *)
(*                                                                         *)
(* std::vector values are functions on 0..n-1, so every index below is the *)
(* index the C++ code uses.                                                *)
(***************************************************************************)
EXTENDS Integers, Sequences, FiniteSets, TLC

VARIABLES
    attrs,      \* the node's ShuffleChannelsAttributes
    plan,       \* the PermuteParams of the executor held by execPtr
    MBin,       \* the MB argument of the last exec
    dstBuf,     \* destination memory after exec
    backBuf,    \* destination memory after the inverse shuffle
    phase,      \* position of the node in its life cycle
    node,       \* the node's other members and the inputs it was built from
    callers,    \* the callers of prepareParams that share a runtime cache
    cache,      \* entries of the runtime cache
    inflight,   \* keys whose executor is being built
    builds      \* log of the builder's invocations

planVars == <<attrs, plan, MBin, dstBuf, backBuf, phase>>

cacheVars == <<callers, cache, inflight, builds>>

vars == <<attrs, plan, MBin, dstBuf, backBuf, phase, node, callers, cache, inflight, builds>>

---------------------------------------------------------------------------
(* Bounds of the model *)
MaxRank == 4
MaxExtent == 6
MaxElems == 16
MaxGroup == 2
MaxMB == 1

(* Program constants *)
channelDim == 1
blk8 == 8
blk16 == 16

---------------------------------------------------------------------------
(* LayoutType tags *)
ncsp == "ncsp"
nspc == "nspc"
nCsp8c == "nCsp8c"
nCsp16c == "nCsp16c"

LayoutTypes == {ncsp, nspc, nCsp8c, nCsp16c}

(* A LayoutType value that is none of the four tags *)
undef == "undef"

(* std::vector helpers *)
EmptyVec == [i \in {} |-> 0]

Size(v) == Cardinality(DOMAIN v)

Back(v) == v[Size(v) - 1]

(* v[lo] * ... * v[hi], 1 when lo > hi *)
RECURSIVE Prod(_, _, _)
Prod(v, lo, hi) == IF lo > hi THEN 1 ELSE v[lo] * Prod(v, lo + 1, hi)

Iota(n) == [i \in 0..(n - 1) |-> i]

CeilDiv(a, b) == (a + b - 1) \div b

---------------------------------------------------------------------------
(* Physical layouts of the memory descriptor *)

BlockSize(layout) == IF layout = nCsp16c THEN blk16 ELSE blk8

(* BlockedMemoryDesc::getBlockDims(): extents in physical order.            *)
(*   ncsp     [N, C, d2, ..]                                                *)
(*   nspc     [N, d2, .., C]                                                *)
(*   nCspXc   [N, ceil(C/X), d2, .., X]                                     *)
getBlockDims(layout, dims) ==
    LET r == Size(dims) IN
    IF layout \in {nCsp8c, nCsp16c}
      THEN [i \in 0..r |->
              IF i = 0 THEN dims[0]
              ELSE IF i = 1 THEN CeilDiv(dims[1], BlockSize(layout))
              ELSE IF i = r THEN BlockSize(layout)
              ELSE dims[i]]
    ELSE IF layout = nspc /\ r >= 3
      THEN [i \in 0..(r - 1) |->
              IF i = 0 THEN dims[0]
              ELSE IF i = r - 1 THEN dims[1]
              ELSE dims[i + 1]]
    ELSE dims

(* Row-major offset of multi-index idx in a buffer of extents ext *)
RECURSIVE Ravel(_, _, _)
Ravel(ext, idx, k) ==
    IF k < 0 THEN 0
    ELSE idx[k] * Prod(ext, k + 1, Size(ext) - 1) + Ravel(ext, idx, k - 1)

(* Offset, in elements, of logical coordinate c of a tensor of logical      *)
(* extents dims stored in the given layout.                                 *)
PhysOffset(layout, dims, c) ==
    LET r == Size(dims)
        ext == getBlockDims(layout, dims)
        idx == IF layout \in {nCsp8c, nCsp16c}
                 THEN [i \in 0..r |->
                         IF i = 0 THEN c[0]
                         ELSE IF i = 1 THEN c[1] \div BlockSize(layout)
                         ELSE IF i = r THEN c[1] % BlockSize(layout)
                         ELSE c[i]]
               ELSE IF layout = nspc /\ r >= 3
                 THEN [i \in 0..(r - 1) |->
                         IF i = 0 THEN c[0]
                         ELSE IF i = r - 1 THEN c[1]
                         ELSE c[i + 1]]
               ELSE c
    IN Ravel(ext, idx, Size(ext) - 1)

---------------------------------------------------------------------------
(* ShuffleChannelsAttributes *)

Attrs(layout, rank, axis, spatialRank, group, dataSize, srcDims, srcBlockedDims) ==
    [layoutType |-> layout, dataRank |-> rank, axis |-> axis,
     spatialRank |-> spatialRank, group |-> group, dataSize |-> dataSize,
     srcDims |-> srcDims, srcBlockedDims |-> srcBlockedDims]

NoAttrs == Attrs(undef, 0, 0, 0, 0, 0, EmptyVec, EmptyVec)

KeyEqNoDims(lhs, rhs) ==
    /\ lhs.layoutType = rhs.layoutType /\ lhs.dataRank = rhs.dataRank
    /\ lhs.axis = rhs.axis /\ lhs.spatialRank = rhs.spatialRank
    /\ lhs.group = rhs.group /\ lhs.dataSize = rhs.dataSize

KeyEqGroupTypo(lhs, rhs) ==
    /\ lhs.layoutType = rhs.layoutType /\ lhs.dataRank = rhs.dataRank
    /\ lhs.axis = rhs.axis /\ lhs.spatialRank = rhs.spatialRank
    /\ lhs.group = rhs.dataSize /\ lhs.dataSize = rhs.dataSize
    /\ lhs.srcDims = rhs.srcDims
    /\ lhs.srcBlockedDims = rhs.srcBlockedDims

(* ShuffleChannelsAttributes::operator== *)
KeyEq(lhs, rhs) ==
    /\ lhs.layoutType = rhs.layoutType /\ lhs.dataRank = rhs.dataRank
    /\ lhs.axis = rhs.axis /\ lhs.spatialRank = rhs.spatialRank
    /\ lhs.group = rhs.group /\ lhs.dataSize = rhs.dataSize
    /\ lhs.srcDims = rhs.srcDims
    /\ lhs.srcBlockedDims = rhs.srcBlockedDims

(* hash_combine / get_vector_hash of primitive_hashing_utils: a             *)
(* deterministic combiner of a seed and a value, here on 16 bits.           *)
HashWidth == 65536

hash_combine(seed, v) == (seed * 31 + v + 1) % HashWidth

RECURSIVE get_vector_hash(_, _, _)
get_vector_hash(seed, vec, k) ==
    IF k >= Size(vec) THEN seed
    ELSE get_vector_hash(hash_combine(seed, vec[k]), vec, k + 1)

LayoutOrdinal(l) ==
    IF l = nspc THEN 0 ELSE IF l = ncsp THEN 1 ELSE IF l = nCsp8c THEN 2
    ELSE IF l = nCsp16c THEN 3 ELSE 4

(* ShuffleChannelsAttributes::hash *)
hash(a) ==
    LET s1 == hash_combine(0, LayoutOrdinal(a.layoutType))
        s2 == hash_combine(s1, a.dataRank)
        s3 == hash_combine(s2, a.axis)
        s4 == hash_combine(s3, a.spatialRank)
        s5 == hash_combine(s4, a.group)
        s6 == hash_combine(s5, a.dataSize)
        s7 == get_vector_hash(s6, a.srcDims, 0)
    IN get_vector_hash(s7, a.srcBlockedDims, 0)

---------------------------------------------------------------------------
(* ShuffleChannelsExecutor::ShuffleChannelsExecutor                         *)

isBlocked(a) == a.layoutType \in {nCsp16c, nCsp8c}

isChannelsLast(a) == a.layoutType = nspc

reshapedRankNoBlockedAxis(a) ==
    a.axis + 2 + (IF a.spatialRank # 0 THEN 1 ELSE 0)

reshapedRank(a) ==
    a.axis + 2 + (IF a.spatialRank # 0 THEN 1 ELSE 0)
               + (IF isBlocked(a) /\ a.spatialRank = 0 THEN 1 ELSE 0)

groupSizeWholeAxis(a) == a.srcDims[a.axis]

groupSize(a) == a.srcDims[a.axis] \div a.group

spatialShapeSize(a) ==
    IF a.spatialRank # 0 THEN Prod(a.srcDims, a.axis + 1, a.dataRank - 1) ELSE 1

(* One step of the constructor: order[at] = ord and src_block_dims[at] = dim *)
W(at, ord, dim) == [at |-> at, ord |-> ord, dim |-> dim]

decomposeAndTranposeDup(a, axis) ==
    << W(axis, axis + 1, a.group), W(axis + 1, axis + 1, groupSize(a)) >>

decomposeAndTranpose(a, axis) ==
    << W(axis, axis + 1, a.group), W(axis + 1, axis, groupSize(a)) >>

(* The writes of the layout branches, in program order *)
BlockedWrites(a) ==
    LET batchRank == a.axis
        blkSize == Back(a.srcBlockedDims)
        CB == a.srcBlockedDims[1]
    IN IF a.axis > channelDim
         THEN [i \in 1..batchRank |-> W(i - 1, i - 1, a.srcBlockedDims[i - 1])]
              \o decomposeAndTranpose(a, batchRank)
              \o << W(batchRank + 2, batchRank + 2, spatialShapeSize(a) * blkSize) >>
         ELSE decomposeAndTranpose(a, 0)
              \o << W(2, 2, CB * blkSize * Prod(a.srcDims, 2, a.dataRank - 1)) >>

ChannelsLastWrites(a) ==
    LET batchRank == a.axis
        R == reshapedRank(a)
    IN IF a.axis = channelDim
         THEN << W(0, 0, a.srcDims[0]), W(1, 1, spatialShapeSize(a)) >>
              \o decomposeAndTranpose(a, 2)
       ELSE IF a.axis > channelDim
         THEN [i \in 1..batchRank |->
                 IF i - 1 = 0 THEN W(0, 0, a.srcDims[0])
                 ELSE IF i - 1 = 1 THEN W(R - 1, R - 1, a.srcDims[1])
                 ELSE W(i - 2, i - 2, a.srcDims[i - 1])]
              \o decomposeAndTranpose(a, batchRank - 1)
              \o (IF a.spatialRank # 0
                    THEN << W(batchRank + 1, batchRank + 1, spatialShapeSize(a)) >>
                    ELSE << >>)
       ELSE decomposeAndTranpose(a, 0)
            \o << W(2, 2, spatialShapeSize(a)) >>

PlanarWrites(a) ==
    LET batchRank == a.axis
    IN [i \in 1..batchRank |-> W(i - 1, i - 1, a.srcDims[i - 1])]
       \o decomposeAndTranpose(a, batchRank)
       \o (IF a.spatialRank # 0
             THEN << W(batchRank + 2, batchRank + 2, spatialShapeSize(a)) >>
             ELSE << >>)

LayoutWrites(a) ==
    IF isBlocked(a) THEN BlockedWrites(a)
    ELSE IF isChannelsLast(a) THEN ChannelsLastWrites(a)
    ELSE PlanarWrites(a)

(* Applying the writes to vectors of reshapedRank zeros (resize fills with  *)
(* zeros); a write past the end leaves the vector as it is.                 *)
RECURSIVE ApplyOrder(_, _, _)
ApplyOrder(v, ws, k) ==
    IF k > Len(ws) THEN v
    ELSE ApplyOrder(IF ws[k].at \in DOMAIN v THEN [v EXCEPT ![ws[k].at] = ws[k].ord] ELSE v,
                    ws, k + 1)

RECURSIVE ApplyDims(_, _, _)
ApplyDims(v, ws, k) ==
    IF k > Len(ws) THEN v
    ELSE ApplyDims(IF ws[k].at \in DOMAIN v THEN [v EXCEPT ![ws[k].at] = ws[k].dim] ELSE v,
                   ws, k + 1)

(* The constructor indexes a vector outside its size: undefined behaviour   *)
OutOfRange(a) ==
    LET R == reshapedRank(a)
        ws == LayoutWrites(a)
        order == ApplyOrder([i \in 0..(R - 1) |-> 0], ws, 1)
    IN \/ \E k \in 1..Len(ws) : ws[k].at \notin 0..(R - 1)
       \/ \E i \in 0..(R - 1) : order[i] \notin 0..(R - 1)

(* What a read outside a vector or buffer may return: undefined behaviour,  *)
(* any value (the value just written past the end is one of them).          *)
OobValues == 0..MaxExtent

(* The values the constructor's reads outside src_block_dims may return *)
OobReads(a) == IF OutOfRange(a) THEN OobValues ELSE {0}

DstBlockDimsUnpermuted(order, src, oob) == [i \in DOMAIN order |-> src[i]]

(* dst_block_dims[i] = src_block_dims[order[i]]; oob is what a read outside *)
(* src_block_dims returns.                                                  *)
DstBlockDims(order, src, oob) ==
    [i \in DOMAIN order |-> IF order[i] \in DOMAIN src THEN src[order[i]] ELSE oob]

NoPlan == [ok |-> FALSE, order |-> EmptyVec, src_block_dims |-> EmptyVec,
           dst_block_dims |-> EmptyVec, src_block_order |-> EmptyVec,
           dst_block_order |-> EmptyVec, data_size |-> 0]

(* The PermuteParams the constructor hands to the PermuteKernel *)
BuildParams(a, oob) ==
    LET R == reshapedRank(a)
        ws == LayoutWrites(a)
        order == ApplyOrder([i \in 0..(R - 1) |-> 0], ws, 1)
        src == ApplyDims([i \in 0..(R - 1) |-> 0], ws, 1)
    IN [ok |-> TRUE,
        order |-> order,
        src_block_dims |-> src,
        dst_block_dims |-> DstBlockDims(order, src, oob),
        src_block_order |-> Iota(R),
        dst_block_order |-> Iota(R),
        data_size |-> a.dataSize]

ShuffleChannelsExecutorUnchecked(a, oob) == BuildParams(a, oob)

(* The constructor: ok = FALSE when it throws (unsupported layout); oob is  *)
(* the value its out-of-range reads return.                                 *)
ShuffleChannelsExecutor(a, oob) ==
    IF a.layoutType \notin {nCsp16c, nCsp8c, nspc, ncsp} THEN NoPlan
    ELSE BuildParams(a, oob)

---------------------------------------------------------------------------
(* PermuteKernel::execute: dst[i] = src[j] with j[order[k]] = i[k], over    *)
(* the row-major buffers of extents src_block_dims / dst_block_dims, with   *)
(* i[0] running over 0..mb-1.                                               *)

Strides(ext) == [k \in DOMAIN ext |-> Prod(ext, k + 1, Size(ext) - 1)]

RECURSIVE SrcOffset(_, _, _, _, _, _)
SrcOffset(p, sstr, dstr, o, k, oob) ==
    IF k < 0 THEN 0
    ELSE ((o \div dstr[k]) % p.dst_block_dims[k])
             * (IF p.order[k] \in DOMAIN sstr THEN sstr[p.order[k]] ELSE oob)
         + SrcOffset(p, sstr, dstr, o, k - 1, oob)

(* The largest source offset the kernel reads *)
RECURSIVE MaxOffset(_, _, _)
MaxOffset(p, sstr, k) ==
    IF k < 0 THEN 0
    ELSE (p.dst_block_dims[k] - 1) * sstr[p.order[k]] + MaxOffset(p, sstr, k - 1)

(* The values the kernel's reads outside the plan's vectors and outside the *)
(* source buffer may return: none are made by a plan whose order stays in   *)
(* range and whose offsets stay inside the buffer.                          *)
KernelReads(p, src) ==
    IF /\ \A k \in DOMAIN p.order : p.order[k] \in DOMAIN p.src_block_dims
       /\ \/ \E k \in DOMAIN p.dst_block_dims : p.dst_block_dims[k] = 0
          \/ MaxOffset(p, Strides(p.src_block_dims), Size(p.order) - 1) < Size(src)
      THEN {0} ELSE OobValues

(* oob is what a read outside the plan's vectors or the source buffer gives *)
PermuteExecute(p, src, dst, mb, oob) ==
    LET R == Size(p.order)
        sstr == Strides(p.src_block_dims)
        dstr == Strides(p.dst_block_dims)
        n == mb * dstr[0]
    IN [o \in DOMAIN dst |->
          IF o < n
            THEN LET j == SrcOffset(p, sstr, dstr, o, R - 1, oob)
                 IN IF j \in DOMAIN src THEN src[j] ELSE oob
            ELSE dst[o]]

execOverrideFromZero(p, srcData, dstData, MB, oob) ==
    IF MB >= 0
      THEN PermuteExecute(p, srcData, dstData, MB, oob)
      ELSE PermuteExecute(p, srcData, dstData, p.dst_block_dims[0], oob)

(* ShuffleChannelsExecutor::exec *)
exec(p, srcData, dstData, MB, oob) ==
    IF MB > 0
      THEN PermuteExecute(p, srcData, dstData, MB, oob)
      ELSE PermuteExecute(p, srcData, dstData, p.dst_block_dims[0], oob)

---------------------------------------------------------------------------
(* Inputs of the plan builder: every ShuffleChannelsAttributes of the data  *)
(* model within the bounds (a blocked layout needs a channel axis).         *)

Shapes(r) == {d \in [0..(r - 1) -> 1..MaxExtent] : Prod(d, 0, r - 1) <= MaxElems}


KeyOf(layout, axis, group, dataSize, dims) ==
    Attrs(layout, Size(dims), axis, Size(dims) - axis - 1, group, dataSize,
          dims, getBlockDims(layout, dims))

AllAttrs ==
    UNION { UNION { { KeyOf(l, ax, g, 4, d) :
                        l \in (IF r >= 2 THEN LayoutTypes ELSE {ncsp, nspc}),
                        ax \in 0..(r - 1), g \in 1..MaxGroup } :
                    d \in Shapes(r) } :
            r \in 1..MaxRank }

(* The source buffer holds its own offsets, the destination starts unwritten *)
Unwritten == -1

BufSize(a) == Prod(a.srcBlockedDims, 0, Size(a.srcBlockedDims) - 1)

SrcBuf(a) == Iota(BufSize(a))

EmptyBuf(a) == [o \in 0..(BufSize(a) - 1) |-> Unwritten]

PlanSize(p) == Prod(p.dst_block_dims, 0, Size(p.dst_block_dims) - 1)

(* The data model's invariant on the group count *)
Divisible(a) == a.srcDims[a.axis] % a.group = 0

InverseAttrs(a) == [a EXCEPT !.group = a.srcDims[a.axis] \div a.group]

NoNode == [rawAxis |-> 0, isDynamic |-> FALSE, supportDynamicBatch |-> FALSE, descs |-> {},
           precisionSize |-> 0]

NumCallers == 2
MaxCalls == 2

Callers == 1..NumCallers

IdleCaller ==
    [pc |-> "idle", key |-> NoAttrs, execPtr |-> 0, prev |-> 0, result |-> 0, calls |-> 0]

CacheIdle ==
    /\ callers = [t \in Callers |-> IdleCaller]
    /\ cache = {}
    /\ inflight = {}
    /\ builds = << >>

InitPlan ==
    /\ attrs \in AllAttrs
    /\ plan = NoPlan
    /\ MBin = -1
    /\ dstBuf = EmptyVec
    /\ backBuf = EmptyVec
    /\ phase = "attrs"
    /\ node = NoNode
    /\ CacheIdle

Build ==
    /\ phase = "attrs"
    /\ \E oob \in OobReads(attrs) : plan' = ShuffleChannelsExecutor(attrs, oob)
    /\ phase' \in (IF OutOfRange(attrs) THEN {"built", "crashed"} ELSE {"built"})
    /\ UNCHANGED <<attrs, MBin, dstBuf, backBuf, node, cacheVars>>

(* A plan larger than the buffers, or with an order outside its vectors,    *)
(* makes the kernel run past their end.                                     *)
Exec ==
    /\ phase = "built"
    /\ plan.ok
    /\ \E mb \in (-1)..MaxMB, oob \in KernelReads(plan, SrcBuf(attrs)) :
         /\ mb <= plan.dst_block_dims[0]
         /\ MBin' = mb
         /\ dstBuf' = exec(plan, SrcBuf(attrs), EmptyBuf(attrs), mb, oob)
    /\ phase' \in (IF PlanSize(plan) > BufSize(attrs)
                        \/ KernelReads(plan, SrcBuf(attrs)) # {0}
                     THEN {"executed", "crashed"} ELSE {"executed"})
    /\ UNCHANGED <<attrs, plan, backBuf, node, cacheVars>>

ExecInverse ==
    /\ phase = "executed"
    /\ MBin = -1
    /\ Divisible(attrs)
    /\ \E oob \in OobReads(InverseAttrs(attrs)) :
         LET p2 == ShuffleChannelsExecutor(InverseAttrs(attrs), oob)
         IN /\ p2.ok
            /\ \/ /\ OutOfRange(InverseAttrs(attrs))
                  /\ phase' = "crashed"
                  /\ UNCHANGED backBuf
               \/ /\ \E g \in KernelReads(p2, dstBuf) :
                       backBuf' = exec(p2, dstBuf, EmptyBuf(attrs), -1, g)
                  /\ phase' \in (IF PlanSize(p2) > BufSize(attrs)
                                      \/ KernelReads(p2, dstBuf) # {0}
                                   THEN {"restored", "crashed"} ELSE {"restored"})
    /\ UNCHANGED <<attrs, plan, MBin, dstBuf, node, cacheVars>>

NextPlan == Build \/ Exec \/ ExecInverse

SpecPlan == InitPlan /\ [][NextPlan]_vars

---------------------------------------------------------------------------
(* The node: constructor, initSupportedPrimitiveDescriptors,                *)
(* createPrimitive, prepareParams and execute of one ShuffleChannels node.  *)

NodeNoNormalization(group, axis, rank) ==
    [attrs |-> [NoAttrs EXCEPT !.group = group, !.axis = axis, !.dataRank = rank],
     supportDynamicBatch |-> (axis # 0)]

(* MKLDNNShuffleChannelsNode::MKLDNNShuffleChannelsNode *)
MKLDNNShuffleChannelsNode(group, axis, rank) ==
    LET ax == IF axis < 0 THEN axis + rank ELSE axis
    IN [attrs |-> [NoAttrs EXCEPT !.group = group, !.axis = ax, !.dataRank = rank],
        supportDynamicBatch |-> (ax # 0)]

supported_precision_sizes == {1, 2, 4, 8, 16}

(* BlockedDescCreator::getMinimalRank: addSupportedPrimDesc drops a         *)
(* descriptor whose layout needs a higher rank than the shape has.          *)
getMinimalRank(layout) == IF layout = ncsp THEN 0 ELSE 3

initSupportedPrimitiveDescriptorsAllBlocked(a) ==
    {l \in {ncsp, nspc, nCsp8c, nCsp16c} : a.dataRank >= getMinimalRank(l)}

(* initSupportedPrimitiveDescriptors: the layouts of the descriptors added  *)
initSupportedPrimitiveDescriptors(a) ==
    {l \in {ncsp, nspc} \cup (IF a.axis # 1 THEN {nCsp8c, nCsp16c} ELSE {}) :
        a.dataRank >= getMinimalRank(l)}

(* createPrimitive: attributes taken from the source memory descriptor *)
createPrimitive(a, memLayout, precisionSize) ==
    [a EXCEPT !.spatialRank = a.dataRank - a.axis - 1,
              !.dataSize = precisionSize,
              !.layoutType = IF memLayout = nCsp16c THEN nCsp16c
                             ELSE IF memLayout = nCsp8c THEN nCsp8c
                             ELSE IF memLayout = nspc THEN nspc ELSE ncsp]

(* prepareParams, lines 155-156: the key of the cache lookup *)
prepareParamsKey(a, dims) ==
    [a EXCEPT !.srcDims = dims, !.srcBlockedDims = getBlockDims(a.layoutType, dims)]

PrecisionSizes == {0, 4}

NodeMaxElems == 4

DynMaxElems == 2

MaxPrepares == 2

ShapesUpTo(n) ==
    UNION {{d : d \in {x \in [0..(r - 1) -> 1..n] : Prod(x, 0, r - 1) <= n}} : r \in 1..MaxRank}

(* The input shapes a node is given *)
AllNodeShapes == {d : d \in ShapesUpTo(NodeMaxElems)}

NodeShapes(a) ==
    {d \in AllNodeShapes : Size(d) = a.dataRank /\ d[a.axis] % a.group = 0}

(* The input shapes a dynamic node is given, one after another *)
AllDynamicShapes == {d : d \in ShapesUpTo(DynMaxElems)}

DynamicShapes(a) ==
    {d \in AllDynamicShapes : Size(d) = a.dataRank /\ d[a.axis] % a.group = 0}

InitNode ==
    /\ \E rank \in 1..MaxRank, axis \in (-MaxRank)..(MaxRank - 1), group \in 1..MaxGroup,
          dynamic \in BOOLEAN :
         /\ -rank <= axis /\ axis < rank
         /\ LET n == MKLDNNShuffleChannelsNode(group, axis, rank)
            IN /\ attrs = n.attrs
               /\ node = [rawAxis |-> axis,
                          isDynamic |-> dynamic,
                          supportDynamicBatch |-> n.supportDynamicBatch,
                          descs |-> {},
                          precisionSize |-> 0]
    /\ plan = NoPlan
    /\ MBin = -1
    /\ dstBuf = EmptyVec
    /\ backBuf = EmptyVec
    /\ phase = "constructed"
    /\ CacheIdle

InitDescriptors ==
    /\ phase = "constructed"
    /\ \E precisionSize \in PrecisionSizes :
         IF precisionSize \in supported_precision_sizes
           THEN /\ node' = [node EXCEPT !.descs = initSupportedPrimitiveDescriptors(attrs),
                                         !.precisionSize = precisionSize]
                /\ phase' = "descriptors"
           ELSE /\ phase' = "threw"
                /\ UNCHANGED node
    /\ UNCHANGED <<attrs, plan, MBin, dstBuf, backBuf, cacheVars>>

(* prepareParams of a single node: getOrCreate finds the executor stored    *)
(* under an equal key or builds and stores one; the entry holds the         *)
(* executor itself.                                                         *)
PrepareParamsOn(a, dims) ==
    LET key == prepareParamsKey(a, dims)
        hits == {e \in cache : KeyEq(e.key, key) /\ hash(e.key) = hash(key)}
    IN /\ attrs' = key
       /\ IF hits # {}
            THEN /\ plan' = (CHOOSE e \in hits : TRUE).exec
                 /\ phase' = "prepared"
                 /\ UNCHANGED cache
            ELSE /\ Cardinality(cache) < MaxPrepares
                 /\ \E oob \in OobReads(key) :
                      LET p == ShuffleChannelsExecutor(key, oob)
                      IN IF p.ok
                           THEN /\ cache' = cache \cup {[key |-> key, exec |-> p]}
                                /\ plan' = p
                                /\ phase' = "prepared"
                           ELSE /\ phase' = "threw"
                                /\ UNCHANGED <<cache, plan>>
       /\ UNCHANGED <<callers, inflight, builds>>

(* createPrimitive of a node with defined input shapes: prepareParams runs  *)
(* inside it.                                                               *)
CreatePrimitiveStatic ==
    /\ phase = "descriptors"
    /\ ~node.isDynamic
    /\ \E memLayout \in node.descs :
         LET a == createPrimitive(attrs, memLayout, node.precisionSize)
         IN \E dims \in NodeShapes(a) : PrepareParamsOn(a, dims)
    /\ UNCHANGED <<node, MBin, dstBuf, backBuf>>

(* createPrimitive of a dynamic node: the shapes are not defined yet *)
CreatePrimitiveDynamic ==
    /\ phase = "descriptors"
    /\ node.isDynamic
    /\ \E memLayout \in node.descs :
         attrs' = createPrimitive(attrs, memLayout, node.precisionSize)
    /\ phase' = "created"
    /\ UNCHANGED <<node, plan, MBin, dstBuf, backBuf, cacheVars>>

(* prepareParams of a dynamic node runs again whenever its input shapes     *)
(* change.                                                                  *)
PrepareParamsDynamic ==
    /\ phase \in {"created", "prepared", "executed"}
    /\ node.isDynamic
    /\ \E dims \in DynamicShapes(attrs) : PrepareParamsOn(attrs, dims)
    /\ UNCHANGED <<node, MBin, dstBuf, backBuf>>

(* The memory of the child edge: what earlier executions wrote stays in it  *)
(* as long as the output keeps its size.                                    *)
DstMemory(a) == IF Size(dstBuf) = BufSize(a) THEN dstBuf ELSE EmptyBuf(a)

(* execute: with supportDynamicBatch MB is the batch extent of a dynamic     *)
(* node and batchToProcess() of a static one, otherwise -1.                 *)
Execute ==
    /\ phase \in {"prepared", "executed"}
    /\ \E MB \in (IF node.supportDynamicBatch
                    THEN (IF node.isDynamic THEN {attrs.srcDims[0]}
                          ELSE 1..attrs.srcDims[0])
                    ELSE {-1}) :
         /\ MBin' = MB
         /\ \E oob \in KernelReads(plan, SrcBuf(attrs)) :
              dstBuf' = exec(plan, SrcBuf(attrs), DstMemory(attrs), MB, oob)
    /\ phase' = "executed"
    /\ UNCHANGED <<attrs, plan, backBuf, node, cacheVars>>

(* execute, lines 292-293: no executor has been compiled yet *)
ExecuteThrows ==
    /\ phase \in {"constructed", "descriptors", "created"}
    /\ phase' = "threw"
    /\ UNCHANGED <<attrs, plan, MBin, dstBuf, backBuf, node, cacheVars>>

NextNode ==
    \/ InitDescriptors
    \/ CreatePrimitiveStatic
    \/ CreatePrimitiveDynamic
    \/ PrepareParamsDynamic
    \/ Execute
    \/ ExecuteThrows

SpecNode == InitNode /\ [][NextNode]_vars

---------------------------------------------------------------------------
(* Callers of prepareParams that share one runtime cache.  getOrCreate      *)
(* holds the cache's lock to look the key up and to store the executor, and *)
(* runs the builder for a key that nobody is building.                      *)

Vec(seq) == [i \in 0..(Len(seq) - 1) |-> seq[i + 1]]

CacheShapes == {Vec(<<4, 2, 1>>), Vec(<<4, 1, 2>>), Vec(<<4, 2, 2>>)}

CacheKeys == {KeyOf(l, 0, 2, 4, d) : l \in {ncsp, undef}, d \in CacheShapes}

RECURSIVE SumCalls(_)
SumCalls(S) ==
    IF S = {} THEN 0
    ELSE LET t == CHOOSE x \in S : TRUE IN callers[t].calls + SumCalls(S \ {t})

Hits(key) == {e \in cache : hash(e.key) = hash(key) /\ KeyEq(e.key, key)}

InFlight(key) == \E k \in inflight : KeyEq(k, key)

Init ==
    /\ attrs = NoAttrs
    /\ plan = NoPlan
    /\ MBin = -1
    /\ dstBuf = EmptyVec
    /\ backBuf = EmptyVec
    /\ phase = "callers"
    /\ node = NoNode
    /\ CacheIdle

(* prepareParams, lines 150-158: the key is complete, getOrCreate starts *)
PrepareParams(t) ==
    /\ callers[t].pc \in {"idle", "done", "threw"}
    /\ SumCalls(Callers) < MaxCalls
    /\ \E key \in CacheKeys :
         callers' = [callers EXCEPT ![t] =
                       [pc |-> "lookup", key |-> key, execPtr |-> @.execPtr,
                        prev |-> @.execPtr, result |-> 0, calls |-> @.calls + 1]]
    /\ UNCHANGED <<planVars, node, cache, inflight, builds>>

(* getOrCreate finds the executor of an equal key *)
LookupHit(t) ==
    /\ callers[t].pc = "lookup"
    /\ Hits(callers[t].key) # {}
    /\ callers' = [callers EXCEPT ![t].pc = "assign",
                                  ![t].result = (CHOOSE e \in Hits(callers[t].key) : TRUE).exec]
    /\ UNCHANGED <<planVars, node, cache, inflight, builds>>

(* getOrCreate finds nothing and nobody builds the key: this caller builds  *)
LookupMiss(t) ==
    /\ callers[t].pc = "lookup"
    /\ Hits(callers[t].key) = {}
    /\ ~InFlight(callers[t].key)
    /\ inflight' = inflight \cup {callers[t].key}
    /\ callers' = [callers EXCEPT ![t].pc = "build"]
    /\ UNCHANGED <<planVars, node, cache, builds>>

Waiting(key) == {u \in Callers : callers[u].pc = "lookup" /\ callers[u].key = key}

(* The builder (lines 152-154) returns an executor, which is stored *)
BuildStores(t) ==
    /\ callers[t].pc = "build"
    /\ \E oob \in OobReads(callers[t].key) : ShuffleChannelsExecutor(callers[t].key, oob).ok
    /\ builds' = Append(builds, [key |-> callers[t].key, ok |-> TRUE,
                                 waiters |-> Waiting(callers[t].key)])
    /\ cache' = cache \cup {[key |-> callers[t].key, exec |-> Len(builds) + 1]}
    /\ inflight' = inflight \ {callers[t].key}
    /\ callers' = [callers EXCEPT ![t].pc = "assign", ![t].result = Len(builds) + 1]
    /\ UNCHANGED <<planVars, node>>

(* The builder throws: nothing is stored and the exception leaves           *)
(* getOrCreate and prepareParams before execPtr is assigned.                *)
BuildThrows(t) ==
    /\ callers[t].pc = "build"
    /\ \E oob \in OobReads(callers[t].key) : ~ShuffleChannelsExecutor(callers[t].key, oob).ok
    /\ builds' = Append(builds, [key |-> callers[t].key, ok |-> FALSE,
                                 waiters |-> Waiting(callers[t].key)])
    /\ inflight' = inflight \ {callers[t].key}
    /\ callers' = [callers EXCEPT ![t].pc = "threw"]
    /\ UNCHANGED <<planVars, node, cache>>

(* prepareParams, lines 161-165 *)
Assign(t) ==
    /\ callers[t].pc = "assign"
    /\ callers' = IF callers[t].result = 0
                    THEN [callers EXCEPT ![t].pc = "threw"]
                    ELSE [callers EXCEPT ![t].pc = "done", ![t].execPtr = callers[t].result]
    /\ UNCHANGED <<planVars, node, cache, inflight, builds>>

Next ==
    \E t \in Callers :
        \/ PrepareParams(t)
        \/ LookupHit(t)
        \/ LookupMiss(t)
        \/ BuildStores(t)
        \/ BuildThrows(t)
        \/ Assign(t)

Spec == Init /\ [][Next]_vars

---------------------------------------------------------------------------
(* Properties of the plan builder and of exec, checked under SpecPlan       *)

(* The attributes the node hands to the constructor: no blocked layout when *)
(* the shuffle axis is the channel axis (initSupportedPrimitiveDescriptors) *)
(* and no channels-last layout whose decomposed pair would not fit into     *)
(* reshapedRank entries.                                                    *)
Supported(a) ==
    /\ ~(isBlocked(a) /\ a.axis = channelDim)
    /\ ~(isChannelsLast(a) /\ a.spatialRank = 0 /\ a.axis <= channelDim)

Built == phase \in {"built", "executed", "restored"}

IsPermutation(order, R) ==
    /\ DOMAIN order = 0..(R - 1)
    /\ \A v \in 0..(R - 1) : Cardinality({i \in DOMAIN order : order[i] = v}) = 1

ExpectedRank(a) ==
    a.axis + 2 + (IF a.spatialRank # 0 THEN 1 ELSE 0)
               + (IF a.layoutType \in {nCsp8c, nCsp16c} /\ a.spatialRank = 0 THEN 1 ELSE 0)

(* C1 as stated: for every valid ShuffleAttributes (any layout, rank, axis, *)
(* dividing group) the constructor's order is a permutation of              *)
(* [0, reshapedRank).                                                       *)
C1_AllLayoutsPermutation ==
    (Built /\ plan.ok /\ Divisible(attrs))
        => IsPermutation(plan.order, ExpectedRank(attrs))

(* C1 amended: for every valid ShuffleAttributes other than a blocked       *)
(* layout with axis == 1 and a channels-last layout with spatialRank == 0   *)
(* and axis <= 1, the constructor's order is a permutation of               *)
(* [0, reshapedRank): every index appears exactly once.                     *)
C1_OrderIsPermutation ==
    (Built /\ plan.ok /\ Divisible(attrs) /\ Supported(attrs))
        => IsPermutation(plan.order, ExpectedRank(attrs))

C1_Witness ==
    /\ phase = "built" /\ plan.ok /\ Divisible(attrs) /\ Supported(attrs)
    /\ attrs.layoutType = nspc /\ attrs.axis = 3 /\ attrs.group = 2
    /\ IsPermutation(plan.order, 5)
    /\ plan.order[2] = 3 /\ plan.order[3] = 2

(* Logical coordinates of a tensor, and the coordinate a channel shuffle    *)
(* reads for destination coordinate c.                                      *)
Unravel(dims, n) ==
    [i \in DOMAIN dims |-> (n \div Prod(dims, i + 1, Size(dims) - 1)) % dims[i]]

Coords(dims) == {Unravel(dims, n) : n \in 0..(Prod(dims, 0, Size(dims) - 1) - 1)}

ShuffleSource(a, c) ==
    LET gs == a.srcDims[a.axis] \div a.group
    IN [c EXCEPT ![a.axis] = (c[a.axis] % a.group) * gs + (c[a.axis] \div a.group)]

IsChannelShuffle(a, dst) ==
    \A c \in Coords(a.srcDims) :
        dst[PhysOffset(a.layoutType, a.srcDims, c)]
            = PhysOffset(a.layoutType, a.srcDims, ShuffleSource(a, c))

(* C2 as stated: for every valid ShuffleAttributes the executed plan is the *)
(* channel shuffle of the logical tensor.                                   *)
C2_AllLayoutsShuffle ==
    (phase = "executed" /\ MBin = -1 /\ Divisible(attrs))
        => IsChannelShuffle(attrs, dstBuf)

(* C2 amended: for every valid ShuffleAttributes other than a blocked       *)
(* layout with axis == 1 and a channels-last layout with spatialRank == 0   *)
(* and axis <= 1, the destination element at shuffle-axis coordinate        *)
(* k*group + g is the source element at g*groupSize + k, all other logical  *)
(* coordinates equal.                                                       *)
C2_ExecIsChannelShuffle ==
    (phase = "executed" /\ MBin = -1 /\ Divisible(attrs) /\ Supported(attrs))
        => IsChannelShuffle(attrs, dstBuf)

(* Planar, shape [1,4,2,2], axis 1, group 2: channels [c0,c1,c2,c3] become  *)
(* [c0,c2,c1,c3].                                                           *)
C2_Witness ==
    /\ phase = "executed" /\ MBin = -1
    /\ attrs.layoutType = ncsp /\ attrs.axis = 1 /\ attrs.group = 2
    /\ attrs.srcDims = [i \in 0..3 |-> IF i = 0 THEN 1 ELSE IF i = 1 THEN 4 ELSE 2]
    /\ dstBuf = [o \in 0..15 |->
                   IF o \in 4..7 THEN o + 4 ELSE IF o \in 8..11 THEN o - 4 ELSE o]

(* C3 as stated: for every valid ShuffleAttributes, the plan for group g    *)
(* followed by the plan for group shape[axis]/g restores the source buffer. *)
C3_AllLayoutsRoundTrip ==
    (phase = "restored" /\ Divisible(attrs)) => backBuf = SrcBuf(attrs)

(* C3 amended: the round trip restores the source buffer element for        *)
(* element for every valid ShuffleAttributes other than a blocked layout    *)
(* with axis == 1 and a channels-last layout with spatialRank == 0 and      *)
(* axis <= 1.                                                               *)
C3_RoundTrip ==
    (phase = "restored" /\ Divisible(attrs) /\ Supported(attrs))
        => backBuf = SrcBuf(attrs)

C3_Witness ==
    /\ phase = "restored" /\ Supported(attrs)
    /\ attrs.layoutType = nCsp8c /\ attrs.axis = 2 /\ attrs.group = 2
    /\ attrs.srcDims[2] = 6
    /\ dstBuf # SrcBuf(attrs)
    /\ backBuf = SrcBuf(attrs)

(* C6 as stated: when shape[axis] % group != 0 the constructor fails and    *)
(* produces no plan.                                                        *)
C6_NonDivisibleFails ==
    (phase # "attrs" /\ ~Divisible(attrs)) => ~plan.ok

(* Elements of the destination that exec wrote *)
Written(dst) == {o \in DOMAIN dst : dst[o] # Unwritten}

RunsWithExtent(p, a, dst, extent) ==
    LET full == PermuteExecute(p, SrcBuf(a), EmptyBuf(a), p.dst_block_dims[0], 0)
        n == extent * Prod(p.dst_block_dims, 1, Size(p.dst_block_dims) - 1)
    IN \A o \in DOMAIN dst : dst[o] = IF o < n THEN full[o] ELSE Unwritten

(* C8 as stated: the override replaces the axis-0 extent for every          *)
(* batchOverride >= 0 (0 copies nothing) and for no batchOverride < 0.      *)
C8_OverrideFromZero ==
    (phase = "executed" /\ Divisible(attrs) /\ Supported(attrs))
        => RunsWithExtent(plan, attrs, dstBuf,
                          IF MBin >= 0 THEN MBin ELSE plan.dst_block_dims[0])

(* C8 amended: exec runs the permutation with the plan's axis-0 extent      *)
(* replaced by batchOverride for every batchOverride > 0, and with the      *)
(* plan's own axis-0 extent for every batchOverride <= 0 (0 included).      *)
C8_OverrideWhenPositive ==
    (phase = "executed" /\ Divisible(attrs) /\ Supported(attrs))
        => RunsWithExtent(plan, attrs, dstBuf,
                          IF MBin > 0 THEN MBin ELSE plan.dst_block_dims[0])

C8_Witness ==
    /\ phase = "executed" /\ Divisible(attrs) /\ Supported(attrs)
    /\ MBin = 1 /\ plan.dst_block_dims[0] = 2 /\ attrs.axis = 1 /\ attrs.group = 2
    /\ Cardinality(Written(dstBuf)) * 2 = BufSize(attrs)

(* C9 as stated: for a blocked layout with spatialRank == 0, reshapedRank   *)
(* is axis + 3 and the trailing axis has extent 1 in srcBlockDims and       *)
(* dstBlockDims.                                                            *)
C9_TrailingExtentOne ==
    (Built /\ plan.ok /\ Divisible(attrs) /\ isBlocked(attrs) /\ attrs.spatialRank = 0)
        => /\ Size(plan.order) = attrs.axis + 3
           /\ plan.src_block_dims[attrs.axis + 2] = 1
           /\ plan.dst_block_dims[attrs.axis + 2] = 1

(* C9 amended: for a blocked layout with spatialRank == 0 and axis > 1,     *)
(* reshapedRank is axis + 3 (not axis + 2) and the trailing axis at         *)
(* position reshapedRank - 1 has the layout's block size (8 or 16) as its   *)
(* extent in srcBlockDims and dstBlockDims.                                 *)
C9_TrailingBlockAxis ==
    (Built /\ plan.ok /\ Divisible(attrs) /\ isBlocked(attrs) /\ attrs.spatialRank = 0
       /\ attrs.axis > channelDim)
        => /\ Size(plan.order) = attrs.axis + 3
           /\ Size(plan.src_block_dims) = attrs.axis + 3
           /\ plan.order[attrs.axis + 2] = attrs.axis + 2
           /\ plan.src_block_dims[attrs.axis + 2] = BlockSize(attrs.layoutType)
           /\ plan.dst_block_dims[attrs.axis + 2] = BlockSize(attrs.layoutType)

C9_Witness ==
    /\ phase = "built" /\ plan.ok /\ Divisible(attrs)
    /\ attrs.layoutType = nCsp8c /\ attrs.spatialRank = 0 /\ attrs.axis = 2
    /\ Size(plan.order) = 5
    /\ plan.src_block_dims[4] = 8

---------------------------------------------------------------------------
(* Properties of the runtime cache, checked under Spec                      *)

Done(t) == callers[t].pc = "done"

SuccessfulBuilds(key) == {i \in 1..Len(builds) : builds[i].key = key /\ builds[i].ok}

Invocations(key) == {i \in 1..Len(builds) : builds[i].key = key}

(* C4: callers that ask for the same key get the same executor instance,    *)
(* built by exactly one invocation of the builder, in every interleaving;   *)
(* callers that ask for different keys get different executors.             *)
C4_SingleFlight ==
    /\ \A t \in Callers :
         Done(t) => /\ Invocations(callers[t].key) = {callers[t].execPtr}
                    /\ SuccessfulBuilds(callers[t].key) = {callers[t].execPtr}
    /\ \A t, u \in Callers :
         (Done(t) /\ Done(u))
            => (callers[t].key = callers[u].key <=> callers[t].execPtr = callers[u].execPtr)
    /\ \A i, j \in 1..Len(builds) :
         (i # j /\ builds[i].ok) => builds[i].key # builds[j].key

C4_Witness ==
    /\ \A t \in Callers : Done(t) /\ callers[t].key = callers[1].key
                                  /\ callers[t].execPtr = callers[1].execPtr
    /\ Len(builds) = 1
    /\ builds[1].waiters # {}

BuilderFails(key) == key.layoutType \notin LayoutTypes

(* C5: when the builder fails for a key the failure reaches the caller of   *)
(* prepareParams, no entry is stored for the key, execPtr keeps the value   *)
(* it had, and a later call with supported attributes gets an executor.     *)
C5_FailureNotCached ==
    /\ \A e \in cache : ~BuilderFails(e.key)
    /\ \A i \in 1..Len(builds) : builds[i].ok <=> ~BuilderFails(builds[i].key)
    /\ \A t \in Callers :
         /\ (callers[t].pc \in {"assign", "done"}) => ~BuilderFails(callers[t].key)
         /\ callers[t].pc = "threw"
              => /\ BuilderFails(callers[t].key)
                 /\ callers[t].execPtr = callers[t].prev
                 /\ callers[t].result = 0
         /\ Done(t) => /\ callers[t].execPtr # 0
                       /\ [key |-> callers[t].key, exec |-> callers[t].execPtr] \in cache

FailedBefore(t) ==
    \E i \in 1..Len(builds) : ~builds[i].ok /\ builds[i].key.srcDims = callers[t].key.srcDims

C5_Witness ==
    \E t \in Callers :
        /\ Done(t) /\ callers[t].calls = 2 /\ callers[t].prev = 0
        /\ Len(builds) = 2 /\ ~builds[1].ok /\ builds[2].ok
        /\ FailedBefore(t)
        /\ cache = {[key |-> callers[t].key, exec |-> 2]}

Active(t) == callers[t].pc # "idle" /\ callers[t].key.layoutType \in LayoutTypes

SamePlan(k1, k2) ==
    \A o1 \in OobReads(k1), o2 \in OobReads(k2) :
        ShuffleChannelsExecutor(k1, o1) = ShuffleChannelsExecutor(k2, o2)

CacheEqual(k1, k2) == KeyEq(k1, k2) /\ hash(k1) = hash(k2)

(* C7 as stated: two keys are equal for the cache (operator== and equal     *)
(* hash) if and only if they induce the same plan, also when they differ in *)
(* shape extents.                                                           *)
C7_EqualIffSamePlan ==
    \A t, u \in Callers :
        (Active(t) /\ Active(u))
            => (CacheEqual(callers[t].key, callers[u].key)
                  <=> SamePlan(callers[t].key, callers[u].key))

(* C7 amended: two keys are equal for the cache exactly when all their      *)
(* fields are equal; equal keys have equal hash() and induce the same plan, *)
(* but keys that differ in a field, shape extents included, are distinct    *)
(* entries even when they induce the same plan.                             *)
C7_EqualKeysSamePlan ==
    \A t, u \in Callers :
        (Active(t) /\ Active(u))
            => /\ KeyEq(callers[t].key, callers[u].key) <=> callers[t].key = callers[u].key
               /\ KeyEq(callers[t].key, callers[u].key)
                    => /\ hash(callers[t].key) = hash(callers[u].key)
                       /\ SamePlan(callers[t].key, callers[u].key)

C7_Witness ==
    /\ Done(1) /\ Done(2)
    /\ callers[1].key.srcDims # callers[2].key.srcDims
    /\ SamePlan(callers[1].key, callers[2].key)
    /\ ~KeyEq(callers[1].key, callers[2].key)
    /\ callers[1].execPtr # callers[2].execPtr
    /\ Cardinality(cache) = 2

---------------------------------------------------------------------------
(* Properties of the node, checked under SpecNode                           *)

(* C10: a node constructed with axis a, -rank <= a < 0, has the normalized  *)
(* axis, the spatialRank, the cache key and the plan of the node            *)
(* constructed with axis a + rank, and 0 <= axis < rank.                    *)
C10_NegativeAxisNormalized ==
    (node.rawAxis < 0 /\ phase # "threw")
        => LET rank == attrs.dataRank
               pos == MKLDNNShuffleChannelsNode(attrs.group, node.rawAxis + rank, rank)
               posCreated == createPrimitive(pos.attrs, attrs.layoutType, node.precisionSize)
               posKey == prepareParamsKey(posCreated, attrs.srcDims)
           IN /\ attrs.axis = node.rawAxis + rank
              /\ 0 <= attrs.axis /\ attrs.axis < rank
              /\ attrs.axis = pos.attrs.axis
              /\ node.supportDynamicBatch = pos.supportDynamicBatch
              /\ phase \in {"created", "prepared", "executed"}
                   => attrs.spatialRank = posCreated.spatialRank
              /\ phase \in {"prepared", "executed"}
                   => /\ attrs = posKey
                      /\ OobReads(posKey) = {0}
                      /\ plan = ShuffleChannelsExecutor(posKey, 0)
                      /\ plan.ok

(* axis = -1, rank = 4 gives the plan of axis = 3, rank = 4 *)
C10_Witness ==
    /\ phase = "prepared"
    /\ node.rawAxis = -1 /\ attrs.dataRank = 4 /\ attrs.axis = 3
    /\ attrs.spatialRank = 0
    /\ attrs.group = 2 /\ attrs.srcDims[3] = 4
    /\ plan.ok /\ Size(plan.order) = 5

---------------------------------------------------------------------------
(* C11: whenever execute passes a batch override (supportDynamicBatch, that *)
(* is normalized axis != 0), reshaped axis 0 of the node's plan is the      *)
(* untouched batch axis: order[0] = 0 and src_block_dims[0] =               *)
(* dst_block_dims[0] = shape[0], for every layout the node selects; the     *)
(* override lies within that extent; with axis == 0 execute passes -1.      *)
C11_OverrideOnBatchAxis ==
    /\ phase \in {"prepared", "executed"}
         => /\ node.supportDynamicBatch <=> attrs.axis # 0
            /\ node.supportDynamicBatch
                 => /\ plan.ok
                    /\ plan.order[0] = 0
                    /\ plan.src_block_dims[0] = attrs.srcDims[0]
                    /\ plan.dst_block_dims[0] = attrs.srcDims[0]
    /\ phase = "executed"
         => /\ attrs.axis = 0 => MBin = -1
            /\ attrs.axis # 0
                 => /\ 1 <= MBin /\ MBin <= plan.dst_block_dims[0]
                    /\ node.isDynamic => MBin = attrs.srcDims[0]

(* a blocked node with axis 2 executed with override 1 on a batch of 2 *)
C11_Witness ==
    /\ phase = "executed"
    /\ node.supportDynamicBatch /\ ~node.isDynamic
    /\ attrs.layoutType = nCsp8c /\ attrs.axis = 2 /\ attrs.group = 2
    /\ attrs.srcDims[0] = 2 /\ MBin = 1
    /\ plan.order[0] = 0 /\ plan.src_block_dims[0] = 2

====
